---- MODULE Spec2Model ----
(***************************************************************************)
(* The three eviction engines of the cache library: LRU (src/src/lru),     *)
(* weighted LFU (src/src/lfu_w) and Landlord (src/src/landlord), behind    *)
(* the tagged union CacheType (src/src/lib.rs).                            *)
(*                                                                         *)
(* Conventions.                                                            *)
(*  - Arena slots are numbered from 1 (Rust: from 0), so that 0 can stand  *)
(*    for Option::None in prev/next/head/tail; a value is 1 or 2 and 0     *)
(*    stands for a miss (Option::None).                                    *)
(*  - A HashMap is a function whose domain is the set of its keys.         *)
(*  - priority_queue::PriorityQueue<K, Reverse<P>> is a function from the  *)
(*    queued keys to their priority P; pop() takes a key of least P, and   *)
(*    which one among equals is left open.                                 *)
(*  - Landlord's u32 quantities (weight, l, priorities) are held in units  *)
(*    of 2^30: every weight supplied is a multiple of 2^30, hence so is    *)
(*    every sum the engine forms, and 2^32 is U32_UNITS units.  A sum that *)
(*    passes 2^32 wraps (build without overflow checks) or panics (build   *)
(*    with them); a call that panicked ends the run.                       *)
(*  - The LFU's usize quantities (weight, priority) are a + b * 2^(w-2)    *)
(*    for a usize of w bits, with a small; the model writes 2^(w-2) as     *)
(*    USIZE_QUARTER, a number above every freq * a it forms, so products,  *)
(*    their order and their overflow past 2^w (USIZE_RANGE) are those of   *)
(*    the program.  freq * weight wraps or panics like Landlord's sums.    *)
(***************************************************************************)
EXTENDS Integers, Sequences, FiniteSets, TLC

\* Bounds of the model
MaxCapacity == 2
MaxFreq == 2

\* Option::None (a slot index is >= 1, a value is >= 1)
None == 0
\* Option<usize>::None as the weight of LFUCache::put
NoWeight == -1
\* 2^32 in units of 2^30
U32_UNITS == 4
\* 2^(w-2) for a usize of w bits
USIZE_QUARTER == 8

Keys == {1, 2, 3}
Values == {1, 2}
Capacities == 0..MaxCapacity
USIZE_RANGE == 4 * USIZE_QUARTER
LfuWeights == {NoWeight, 1, 2}
\* weights with one, 2^(w-1), whose product with a freq of 2 passes 2^w
LfuWideWeights == {NoWeight, 1, 2 * USIZE_QUARTER}
U32 == 0..(U32_UNITS - 1)

VARIABLES
    engine,              \* CacheType variant: "LRU", "LFU" or "Landlord"
    capacity,            \* capacity field of the selected engine
    panicked,            \* an assert!/unwrap failed: the call unwound
    \* arena, shared pattern of LRU and LFU
    nodes, free_list,
    \* LRUCache
    map, head, tail,
    \* LFUCache
    weighted, min_priority_queue, key_to_idx, priority_to_list,
    \* Landlord
    l, pq, cache,
    \* the last call and what it returned
    op, ret,
    \* history: keys the last call made non-resident, resident keys by last
    \* touch (most recent first), accesses of each resident key since insertion
    evicted, recency, accesses

arenaVars == <<nodes, free_list>>
lruVars == <<map, head, tail>>
lfuVars == <<weighted, min_priority_queue, key_to_idx, priority_to_list>>
landlordVars == <<l, pq, cache>>
vars == <<engine, capacity, panicked, nodes, free_list, map, head, tail,
          weighted, min_priority_queue, key_to_idx, priority_to_list,
          l, pq, cache, op, ret, evicted, recency, accesses>>

----------------------------------------------------------------------------
(* std::collections::HashMap and priority_queue::PriorityQueue *)

EmptyMap == [k \in {} |-> None]

MapInsert(m, k, v) == [x \in (DOMAIN m) \cup {k} |-> IF x = k THEN v ELSE m[x]]

MapRemove(m, k) == [x \in (DOMAIN m) \ {k} |-> m[x]]

\* push: a key already queued has its priority replaced
pq_push(q, k, p) == MapInsert(q, k, p)

\* change_priority: nothing happens for a key that is not queued
pq_change_priority(q, k, p) == IF k \in DOMAIN q THEN [q EXCEPT ![k] = p] ELSE q

pq_remove(q, k) == MapRemove(q, k)

\* the keys pop() may return: those of least priority (greatest Reverse)
pq_pop_choices(q) == {k \in DOMAIN q : \A j \in DOMAIN q : q[k] <= q[j]}

\* history: key touched just now goes first, keys no longer resident drop out
Touch(rec, key, resident) ==
    <<key>> \o SelectSeq(rec, LAMBDA x : x # key /\ x \in resident)

----------------------------------------------------------------------------
(* LRUCache, src/src/lru/mod.rs *)

LRU == [map |-> map, nodes |-> nodes, head |-> head, tail |-> tail,
        free_list |-> free_list]

\* mutant: detaching the last entry leaves tail on it
detach_keeps_tail(s, idx) ==
    LET prev == s.nodes[idx].prev
        next == s.nodes[idx].next
        s1 == IF prev # None THEN [s EXCEPT !.nodes[prev].next = next]
                             ELSE [s EXCEPT !.head = next]
    IN  IF next # None THEN [s1 EXCEPT !.nodes[next].prev = prev]
                       ELSE s1

detach(s, idx) ==
    LET prev == s.nodes[idx].prev
        next == s.nodes[idx].next
        s1 == IF prev # None THEN [s EXCEPT !.nodes[prev].next = next]
                             ELSE [s EXCEPT !.head = next]
    IN  IF next # None THEN [s1 EXCEPT !.nodes[next].prev = prev]
                       ELSE [s1 EXCEPT !.tail = prev]

add_to_front(s, idx) ==
    LET s1 == [s EXCEPT !.nodes[idx].prev = None, !.nodes[idx].next = s.head]
        s2 == IF s.head # None THEN [s1 EXCEPT !.nodes[s.head].prev = idx] ELSE s1
        s3 == [s2 EXCEPT !.head = idx]
    IN  IF s3.tail = None THEN [s3 EXCEPT !.tail = idx] ELSE s3

\* mutant: the entry is not promoted
move_to_front_noop(s, idx) == s

move_to_front(s, idx) ==
    IF s.head = idx THEN s ELSE add_to_front(detach(s, idx), idx)

\* mutant: the evicted key stays in the key index
remove_tail_keeps_key(s) ==
    IF s.tail # None
    THEN LET tail_idx == s.tail
             s2 == detach(s, tail_idx)
         IN  [s2 EXCEPT !.free_list = Append(@, tail_idx)]
    ELSE s

remove_tail(s) ==
    IF s.tail # None
    THEN LET tail_idx == s.tail
             key == s.nodes[tail_idx].key
             s1 == [s EXCEPT !.map = MapRemove(@, key)]
             s2 == detach(s1, tail_idx)
         IN  [s2 EXCEPT !.free_list = Append(@, tail_idx)]
    ELSE s

lru_len(s) == Cardinality(DOMAIN s.map)

\* get: the state after the call; lru_get_ret: what it returns
lru_get(s, key) ==
    IF key \in DOMAIN s.map THEN move_to_front(s, s.map[key]) ELSE s

lru_get_ret(s, key) ==
    IF key \in DOMAIN s.map THEN s.nodes[s.map[key]].value ELSE None

\* mutant: a new entry always takes a fresh slot at the end of the arena
lru_put_always_grows(s, key, value, weight) ==
    IF key \in DOMAIN s.map
    THEN LET idx == s.map[key]
         IN  move_to_front([s EXCEPT !.nodes[idx].value = value], idx)
    ELSE LET s1 == IF lru_len(s) >= capacity THEN remove_tail(s) ELSE s
             idx == Len(s1.nodes) + 1
             node == [key |-> key, value |-> value, prev |-> None, next |-> None]
             s2 == [s1 EXCEPT !.free_list = <<>>, !.nodes = Append(@, node)]
             s3 == [s2 EXCEPT !.map = MapInsert(@, key, idx)]
         IN  add_to_front(s3, idx)

\* mutant: an update promotes the entry but keeps its old value
lru_put_keeps_value(s, key, value, weight) ==
    IF key \in DOMAIN s.map
    THEN move_to_front(s, s.map[key])
    ELSE LET s1 == IF lru_len(s) >= capacity THEN remove_tail(s) ELSE s
             reuse == s1.free_list # <<>>
             idx == IF reuse THEN s1.free_list[Len(s1.free_list)]
                             ELSE Len(s1.nodes) + 1
             node == [key |-> key, value |-> value, prev |-> None, next |-> None]
             s2 == IF reuse
                   THEN [s1 EXCEPT !.free_list = SubSeq(@, 1, Len(@) - 1),
                                   !.nodes[idx] = node]
                   ELSE [s1 EXCEPT !.nodes = Append(@, node)]
             s3 == [s2 EXCEPT !.map = MapInsert(@, key, idx)]
         IN  add_to_front(s3, idx)

lru_put(s, key, value, weight) ==
    IF key \in DOMAIN s.map
    THEN LET idx == s.map[key]
         IN  move_to_front([s EXCEPT !.nodes[idx].value = value], idx)
    ELSE LET s1 == IF lru_len(s) >= capacity THEN remove_tail(s) ELSE s
             reuse == s1.free_list # <<>>
             idx == IF reuse THEN s1.free_list[Len(s1.free_list)]
                             ELSE Len(s1.nodes) + 1
             node == [key |-> key, value |-> value, prev |-> None, next |-> None]
             s2 == IF reuse
                   THEN [s1 EXCEPT !.free_list = SubSeq(@, 1, Len(@) - 1),
                                   !.nodes[idx] = node]
                   ELSE [s1 EXCEPT !.nodes = Append(@, node)]
             s3 == [s2 EXCEPT !.map = MapInsert(@, key, idx)]
         IN  add_to_front(s3, idx)

LRUSet(s) ==
    /\ map' = s.map
    /\ nodes' = s.nodes
    /\ head' = s.head
    /\ tail' = s.tail
    /\ free_list' = s.free_list
    /\ evicted' = (DOMAIN map) \ (DOMAIN s.map)
    /\ UNCHANGED <<engine, capacity, panicked, lfuVars, landlordVars, accesses>>

LRUPut(key, value, weight) ==
    /\ engine = "LRU"
    /\ ~panicked
    /\ LET s == lru_put(LRU, key, value, weight)
       IN  /\ LRUSet(s)
           /\ recency' = Touch(recency, key, DOMAIN s.map)
    /\ op' = [name |-> "put", key |-> key]
    /\ ret' = None

LRUGet(key) ==
    /\ engine = "LRU"
    /\ ~panicked
    /\ LET s == lru_get(LRU, key)
       IN  /\ LRUSet(s)
           /\ recency' = IF key \in DOMAIN map
                         THEN Touch(recency, key, DOMAIN s.map)
                         ELSE recency
    /\ op' = [name |-> "get", key |-> key]
    /\ ret' = lru_get_ret(LRU, key)

----------------------------------------------------------------------------
(* Landlord, src/src/landlord/mod.rs *)

Landlord == [l |-> l, pq |-> pq, cache |-> cache, panicked |-> panicked]

\* u32 + u32: the sum wraps in a build without overflow checks and panics
\* ("attempt to add with overflow") in a build with them
AddU32(a, b) == (a + b) % U32_UNITS

AddU32Overflows(a, b) == a + b >= U32_UNITS

landlord_remove(s, key) ==
    [s EXCEPT !.cache = MapRemove(@, key), !.pq = pq_remove(@, key)]

\* mutant: the popped key stays in the value map
landlord_evict_keeps_entry(s) ==
    IF DOMAIN s.pq = {}
    THEN {s}
    ELSE {[s EXCEPT !.l = s.pq[k], !.pq = MapRemove(@, k)] : k \in pq_pop_choices(s.pq)}

\* mutant: the queue is ordered without Reverse, pop() takes a greatest priority
landlord_evict_max(s) ==
    IF DOMAIN s.pq = {}
    THEN {s}
    ELSE {[s EXCEPT !.l = s.pq[k],
                    !.pq = MapRemove(@, k),
                    !.cache = MapRemove(@, k)]
          : k \in {i \in DOMAIN s.pq : \A j \in DOMAIN s.pq : s.pq[i] >= s.pq[j]}}

\* evict: one resulting state for each key pop() may return
\* mutant: an evict that finds the queue empty resets the threshold
landlord_evict_resets_l(s) ==
    IF DOMAIN s.pq = {}
    THEN {[s EXCEPT !.l = 0]}
    ELSE {[s EXCEPT !.l = s.pq[k],
                    !.pq = MapRemove(@, k),
                    !.cache = MapRemove(@, k)] : k \in pq_pop_choices(s.pq)}

landlord_evict(s) ==
    IF DOMAIN s.pq = {}
    THEN {s}
    ELSE {[s EXCEPT !.l = s.pq[k],
                    !.pq = MapRemove(@, k),
                    !.cache = MapRemove(@, k)] : k \in pq_pop_choices(s.pq)}

\* cache.insert, then pq.push of l + weight: the states the two builds end in
\* mutant: the entry is stored in the value map but not queued
landlord_insert_not_queued(s, key, value, weight) ==
    {[s EXCEPT !.cache = MapInsert(@, key, [value |-> value, weight |-> weight])]}

landlord_insert(s, key, value, weight) ==
    LET s1 == [s EXCEPT !.cache =
                            MapInsert(@, key, [value |-> value, weight |-> weight])]
    IN  {[s1 EXCEPT !.pq = pq_push(@, key, AddU32(s.l, weight))]}
        \cup (IF AddU32Overflows(s.l, weight)
              THEN {[s1 EXCEPT !.panicked = TRUE]} ELSE {})

landlord_put(s, key, value, weight) ==
    LET s1 == IF key \in DOMAIN s.cache THEN landlord_remove(s, key) ELSE s
        s2 == IF Cardinality(DOMAIN s1.cache) >= capacity
              THEN landlord_evict(s1) ELSE {s1}
    IN  UNION {landlord_insert(t, key, value, weight) : t \in s2}

\* mutant: a miss queues the key (push in place of change_priority)
landlord_get_queues_absent(s, key) ==
    IF key \in DOMAIN s.cache
    THEN LET weight == s.cache[key].weight
         IN  {[s EXCEPT !.pq = pq_change_priority(@, key, AddU32(s.l, weight))]}
             \cup (IF AddU32Overflows(s.l, weight)
                   THEN {[s EXCEPT !.panicked = TRUE]} ELSE {})
    ELSE {[s EXCEPT !.pq = pq_push(@, key, s.l)]}

landlord_get(s, key) ==
    IF key \in DOMAIN s.cache
    THEN LET weight == s.cache[key].weight
         IN  {[s EXCEPT !.pq = pq_change_priority(@, key, AddU32(s.l, weight))]}
             \cup (IF AddU32Overflows(s.l, weight)
                   THEN {[s EXCEPT !.panicked = TRUE]} ELSE {})
    ELSE {s}

landlord_get_ret(s, key) ==
    IF key \in DOMAIN s.cache THEN s.cache[key].value ELSE None

LandlordSet(s) ==
    /\ l' = s.l
    /\ pq' = s.pq
    /\ cache' = s.cache
    /\ panicked' = s.panicked
    /\ evicted' = (DOMAIN cache) \ (DOMAIN s.cache)
    /\ UNCHANGED <<engine, capacity, arenaVars, lruVars, lfuVars, recency, accesses>>

LandlordPut(key, value, weight) ==
    /\ engine = "Landlord"
    /\ ~panicked
    /\ \E s \in landlord_put(Landlord, key, value, weight) : LandlordSet(s)
    /\ op' = [name |-> "put", key |-> key]
    /\ ret' = None

LandlordGet(key) ==
    /\ engine = "Landlord"
    /\ ~panicked
    /\ \E s \in landlord_get(Landlord, key) :
          /\ LandlordSet(s)
          /\ ret' = IF s.panicked THEN None ELSE landlord_get_ret(Landlord, key)
    /\ op' = [name |-> "get", key |-> key]

LandlordEvict ==
    /\ engine = "Landlord"
    /\ ~panicked
    /\ \E s \in landlord_evict(Landlord) : LandlordSet(s)
    /\ op' = [name |-> "evict", key |-> None]
    /\ ret' = None

----------------------------------------------------------------------------
(* LFUCache, src/src/lfu_w/mod.rs *)

LFU == [nodes |-> nodes, min_priority_queue |-> min_priority_queue,
        key_to_idx |-> key_to_idx, priority_to_list |-> priority_to_list,
        free_list |-> free_list, panicked |-> panicked]

PriorityList_new == [head |-> None, tail |-> None, size |-> 0]

\* weight.unwrap_or_else(|| 1)
unwrap_or_1(weight) == IF weight = NoWeight THEN 1 ELSE weight

add_to_priority_list(s, idx, priority) ==
    LET lists == IF priority \in DOMAIN s.priority_to_list
                 THEN s.priority_to_list
                 ELSE MapInsert(s.priority_to_list, priority, PriorityList_new)
        list == lists[priority]
        n1 == [s.nodes EXCEPT ![idx].next = list.head, ![idx].prev = None]
        n2 == IF list.head # None THEN [n1 EXCEPT ![list.head].prev = idx] ELSE n1
        new_list == [head |-> idx,
                     tail |-> IF list.tail = None THEN idx ELSE list.tail,
                     size |-> list.size + 1]
    IN  [s EXCEPT !.nodes = n2,
                  !.priority_to_list = [lists EXCEPT ![priority] = new_list]]

remove_from_priority_list(s, idx, priority) ==
    LET prev == s.nodes[idx].prev
        next == s.nodes[idx].next
    IN  IF priority \in DOMAIN s.priority_to_list
        THEN LET list == s.priority_to_list[priority]
                 n1 == IF prev # None THEN [s.nodes EXCEPT ![prev].next = next]
                                      ELSE s.nodes
                 n2 == IF next # None THEN [n1 EXCEPT ![next].prev = prev] ELSE n1
                 new_list == [head |-> IF prev # None THEN list.head ELSE next,
                              tail |-> IF next # None THEN list.tail ELSE prev,
                              size |-> list.size - 1]
             IN  [s EXCEPT !.nodes = n2, !.priority_to_list[priority] = new_list]
        ELSE s

\* usize multiplication: the product a build without overflow checks forms,
\* and whether a build with them panics
MulUsize(a, b) == (a * b) % USIZE_RANGE
MulUsizeOverflows(a, b) == a * b >= USIZE_RANGE

\* mutant: the new frequency is used for the priority but not stored
increment_priority_keeps_freq(s, idx) ==
    LET weight == s.nodes[idx].weight
        old_freq == s.nodes[idx].freq
        new_freq == old_freq + 1
        s1 == remove_from_priority_list(s, idx, MulUsize(old_freq, weight))
        s3 == add_to_priority_list(s1, idx, MulUsize(new_freq, weight))
    IN  {[s3 EXCEPT !.min_priority_queue =
                        pq_change_priority(@, s3.nodes[idx].key,
                                           MulUsize(new_freq, weight))]}

\* increment_priority: the states the call may end in; when new_freq * weight
\* overflows, the call either goes on with the wrapped product or panics at the
\* multiplication, the entry unlinked and its freq already stored
increment_priority(s, idx) ==
    LET weight == s.nodes[idx].weight
        old_freq == s.nodes[idx].freq
        new_freq == old_freq + 1
        s1 == remove_from_priority_list(s, idx, MulUsize(old_freq, weight))
        s2 == [s1 EXCEPT !.nodes[idx].freq = new_freq]
        s3 == add_to_priority_list(s2, idx, MulUsize(new_freq, weight))
    IN  {[s3 EXCEPT !.min_priority_queue =
                        pq_change_priority(@, s3.nodes[idx].key,
                                           MulUsize(new_freq, weight))]}
        \cup (IF MulUsizeOverflows(new_freq, weight)
              THEN {[s2 EXCEPT !.panicked = TRUE]} ELSE {})

\* mutant: the evicted entry's key stays in key_to_idx
evict_lfu_keeps_index(s) ==
    IF DOMAIN s.min_priority_queue = {}
    THEN {[s EXCEPT !.panicked = TRUE]}
    ELSE {LET min_priority == s.min_priority_queue[k]
              s1 == [s EXCEPT !.min_priority_queue = MapRemove(@, k)]
          IN  IF /\ min_priority \in DOMAIN s1.priority_to_list
                 /\ s1.priority_to_list[min_priority].tail # None
              THEN LET tail_idx == s1.priority_to_list[min_priority].tail
                       s3 == remove_from_priority_list(s1, tail_idx, min_priority)
                   IN  [s3 EXCEPT !.free_list = Append(@, tail_idx)]
              ELSE s1
          : k \in pq_pop_choices(s.min_priority_queue)}

\* evict_lfu: one resulting state for each key pop() may return; pop() of an
\* empty queue makes unwrap() panic
evict_lfu(s) ==
    IF DOMAIN s.min_priority_queue = {}
    THEN {[s EXCEPT !.panicked = TRUE]}
    ELSE {LET min_priority == s.min_priority_queue[k]
              s1 == [s EXCEPT !.min_priority_queue = MapRemove(@, k)]
          IN  IF /\ min_priority \in DOMAIN s1.priority_to_list
                 /\ s1.priority_to_list[min_priority].tail # None
              THEN LET tail_idx == s1.priority_to_list[min_priority].tail
                       key == s1.nodes[tail_idx].key
                       s2 == [s1 EXCEPT !.key_to_idx = MapRemove(@, key)]
                       s3 == remove_from_priority_list(s2, tail_idx, min_priority)
                   IN  [s3 EXCEPT !.free_list = Append(@, tail_idx)]
              ELSE s1
          : k \in pq_pop_choices(s.min_priority_queue)}

\* the slot allocate_node returns
allocate_idx(s) ==
    IF s.free_list # <<>> THEN s.free_list[Len(s.free_list)] ELSE Len(s.nodes) + 1

allocate_node(s, key, value, freq, weight) ==
    LET node == [key |-> key, value |-> value, freq |-> freq,
                 weight |-> unwrap_or_1(weight), prev |-> None, next |-> None]
    IN  IF s.free_list # <<>>
        THEN [s EXCEPT !.free_list = SubSeq(@, 1, Len(@) - 1),
                       !.nodes[allocate_idx(s)] = node]
        ELSE [s EXCEPT !.nodes = Append(@, node)]

lfu_len(s) == Cardinality(DOMAIN s.key_to_idx)

\* get: the set of states the call may end in
lfu_get(s, key) ==
    IF key \in DOMAIN s.key_to_idx THEN increment_priority(s, s.key_to_idx[key])
                                   ELSE {s}

lfu_get_ret(s, key) ==
    IF key \in DOMAIN s.key_to_idx THEN s.nodes[s.key_to_idx[key]].value ELSE None

\* mutant: a new key is indexed and bucketed but not queued
lfu_insert_not_queued(s, key, value, weight) ==
    LET idx == allocate_idx(s)
        s1 == allocate_node(s, key, value, 1, weight)
        s2 == [s1 EXCEPT !.key_to_idx = MapInsert(@, key, idx)]
    IN  add_to_priority_list(s2, idx, 1 * unwrap_or_1(weight))

lfu_insert(s, key, value, weight) ==
    LET idx == allocate_idx(s)
        s1 == allocate_node(s, key, value, 1, weight)
        s2 == [s1 EXCEPT !.key_to_idx = MapInsert(@, key, idx)]
        s3 == add_to_priority_list(s2, idx, 1 * unwrap_or_1(weight))
    IN  [s3 EXCEPT !.min_priority_queue = pq_push(@, key, 1 * unwrap_or_1(weight))]

\* mutant: the weight is asserted only on the path that inserts a new key
lfu_put_asserts_on_insert(s, key, value, weight) ==
    IF key \in DOMAIN s.key_to_idx
    THEN LET idx == s.key_to_idx[key]
         IN  increment_priority([s EXCEPT !.nodes[idx].value = value], idx)
    ELSE IF weighted /\ weight = NoWeight
    THEN {[s EXCEPT !.panicked = TRUE]}
    ELSE LET s1 == IF lfu_len(s) >= capacity THEN evict_lfu(s) ELSE {s}
         IN  {IF t.panicked THEN t ELSE lfu_insert(t, key, value, weight) : t \in s1}

\* put: the set of states the call may end in
lfu_put(s, key, value, weight) ==
    IF weighted /\ weight = NoWeight
    THEN {[s EXCEPT !.panicked = TRUE]}
    ELSE IF key \in DOMAIN s.key_to_idx
    THEN LET idx == s.key_to_idx[key]
         IN  increment_priority([s EXCEPT !.nodes[idx].value = value], idx)
    ELSE LET s1 == IF lfu_len(s) >= capacity THEN evict_lfu(s) ELSE {s}
         IN  {IF t.panicked THEN t ELSE lfu_insert(t, key, value, weight) : t \in s1}

get_freq(s, key) ==
    IF key \in DOMAIN s.key_to_idx THEN s.nodes[s.key_to_idx[key]].freq ELSE None

LFUSet(s) ==
    /\ nodes' = s.nodes
    /\ min_priority_queue' = s.min_priority_queue
    /\ key_to_idx' = s.key_to_idx
    /\ priority_to_list' = s.priority_to_list
    /\ free_list' = s.free_list
    /\ panicked' = s.panicked
    /\ evicted' = (DOMAIN key_to_idx) \ (DOMAIN s.key_to_idx)
    /\ UNCHANGED <<engine, capacity, weighted, lruVars, landlordVars>>

\* a hit is taken only below MaxFreq, which keeps freq bounded
BelowMaxFreq(key) ==
    key \in DOMAIN key_to_idx => nodes[key_to_idx[key]].freq < MaxFreq

LFUPut(key, value, weight) ==
    /\ engine = "LFU"
    /\ ~panicked
    /\ BelowMaxFreq(key)
    /\ \E s \in lfu_put(LFU, key, value, weight) :
          /\ LFUSet(s)
          /\ recency' = IF s.panicked THEN recency
                        ELSE Touch(recency, key, DOMAIN s.key_to_idx)
          /\ accesses' = IF s.panicked THEN accesses
                         ELSE [accesses EXCEPT ![key] =
                                  IF key \in DOMAIN key_to_idx THEN @ + 1 ELSE 0]
    /\ op' = [name |-> "put", key |-> key]
    /\ ret' = None

LFUGet(key) ==
    /\ engine = "LFU"
    /\ ~panicked
    /\ BelowMaxFreq(key)
    /\ \E s \in lfu_get(LFU, key) :
          LET hit == key \in DOMAIN key_to_idx
          IN  /\ LFUSet(s)
              /\ recency' = IF hit /\ ~s.panicked
                            THEN Touch(recency, key, DOMAIN s.key_to_idx)
                            ELSE recency
              /\ accesses' = IF hit /\ ~s.panicked
                             THEN [accesses EXCEPT ![key] = @ + 1] ELSE accesses
              /\ ret' = IF s.panicked THEN None ELSE lfu_get_ret(LFU, key)
    /\ op' = [name |-> "get", key |-> key]

----------------------------------------------------------------------------
(* Construction and the next-state relation *)

\* the fields CacheType::new_lru / new_lfu / new_landlord fill in
InitFields(e) ==
    /\ engine = e
    /\ capacity \in Capacities
    /\ nodes = <<>>
    /\ free_list = <<>>
    /\ map = EmptyMap
    /\ head = None
    /\ tail = None
    /\ weighted \in IF e = "LFU" THEN BOOLEAN ELSE {FALSE}
    /\ min_priority_queue = EmptyMap
    /\ key_to_idx = EmptyMap
    /\ priority_to_list = EmptyMap
    /\ l = 0
    /\ pq = EmptyMap
    /\ cache = EmptyMap
    /\ op = [name |-> "new", key |-> None]
    /\ ret = None
    /\ evicted = {}
    /\ recency = <<>>
    /\ accesses = [k \in Keys |-> 0]

\* mutant: a constructor without its capacity assertion
InitEngine_no_assert(e) == InitFields(e) /\ panicked = FALSE

\* new(capacity): assert!(capacity > 0, ...) fails for capacity 0 and the call
\* unwinds without an instance: no call can follow
InitEngine(e) == InitFields(e) /\ panicked = ~(capacity > 0)

InitLRU == InitEngine("LRU")

InitLandlord == InitEngine("Landlord")

InitLFU == InitEngine("LFU")

Init == \E e \in {"LRU", "LFU", "Landlord"} : InitEngine(e)

NextLRU ==
    \/ \E key \in Keys, value \in Values, weight \in U32 : LRUPut(key, value, weight)
    \/ \E key \in Keys : LRUGet(key)

NextLandlord ==
    \/ \E key \in Keys, value \in Values, weight \in U32 :
          LandlordPut(key, value, weight)
    \/ \E key \in Keys : LandlordGet(key)
    \/ LandlordEvict

NextLFU ==
    \/ \E key \in Keys, value \in Values, weight \in LfuWeights :
          LFUPut(key, value, weight)
    \/ \E key \in Keys : LFUGet(key)

\* Landlord driven by put and get with weights >= 1 only
NextLandlordPositive ==
    \/ \E key \in Keys, value \in Values, weight \in U32 \ {0} :
          LandlordPut(key, value, weight)
    \/ \E key \in Keys : LandlordGet(key)

\* the LFU driven with weights that reach the top of the usize range
NextLFUWide ==
    \/ \E key \in Keys, value \in Values, weight \in LfuWideWeights :
          LFUPut(key, value, weight)
    \/ \E key \in Keys : LFUGet(key)

Next == NextLRU \/ NextLFU \/ NextLandlord

SpecLRU == InitLRU /\ [][NextLRU]_vars

SpecLandlord == InitLandlord /\ [][NextLandlord]_vars

SpecLandlordPositive == InitLandlord /\ [][NextLandlordPositive]_vars

SpecLFU == InitLFU /\ [][NextLFU]_vars

SpecLFUWide == InitLFU /\ [][NextLFUWide]_vars

Spec == Init /\ [][Next]_vars

----------------------------------------------------------------------------
(* Properties *)

LfuResident == DOMAIN key_to_idx

\* freq x weight of a resident entry
LfuPriorityOf(k) == nodes[key_to_idx[k]].freq * nodes[key_to_idx[k]].weight

\* position of a resident key in the touch history (1 = touched last)
TouchRank(k) == CHOOSE i \in 1..Len(recency) : recency[i] = k

\* the resident entries of least freq x weight
LfuMinPriorityKeys ==
    {k \in LfuResident : \A j \in LfuResident : LfuPriorityOf(k) <= LfuPriorityOf(j)}

\* a put of a key that is not resident, on a full cache, that did not panic
LfuPutNewAtCapacity ==
    /\ engine = "LFU"
    /\ op'.name = "put"
    /\ ~panicked'
    /\ op'.key \notin LfuResident
    /\ lfu_len(LFU) = capacity

\* C1: weighted LFU capacity invariant: after every put and get, len() <= capacity,
\* whichever key the queue pops among those of least priority.
C1_LfuLenWithinCapacity == engine = "LFU" => lfu_len(LFU) <= capacity

\* C2: weighted LFU eviction choice: a put of a new key on a full cache removes
\* exactly the entry of least freq x weight, and among the entries of that least
\* priority the one touched least recently, whichever key the queue pops.
C2_LfuEvictsMinPriorityLeastRecent ==
    [][LfuPutNewAtCapacity =>
          \E k \in LfuMinPriorityKeys :
              /\ \A j \in LfuMinPriorityKeys : TouchRank(j) <= TouchRank(k)
              /\ evicted' = {k}]_vars

LruResident == DOMAIN map

LruValueOf(k) == nodes[map[k]].value

\* a put of a key that is not resident, on a full LRU cache
LruPutNewAtCapacity ==
    /\ engine = "LRU"
    /\ op'.name = "put"
    /\ op'.key \notin LruResident
    /\ lru_len(LRU) = capacity

\* C3: LRU eviction order: a put of a new key on a full cache removes exactly one
\* entry, the resident key whose last get-hit or put is the oldest; every other
\* resident key stays resident with its value.
C3_LruEvictsLeastRecentlyTouched ==
    [][LruPutNewAtCapacity =>
          LET oldest == recency[Len(recency)]
          IN  /\ evicted' = {oldest}
              /\ LruResident' = (LruResident \ {oldest}) \cup {op'.key}
              /\ \A k \in LruResident \ {oldest} : LruValueOf(k)' = LruValueOf(k)]_vars

\* C3 witness: on a cache of capacity 2 holding keys 1 and 2, put of key 3 evicted
\* key 2 and key 1 survived
C3_Witness ==
    /\ engine = "LRU"
    /\ capacity = 2
    /\ op = [name |-> "put", key |-> 3]
    /\ evicted = {2}
    /\ LruResident = {1, 3}

\* C4: LRU capacity invariant: after every put and get, len() <= capacity and
\* len() is the number of keys for which get returns a value.
C4_LruLenWithinCapacity ==
    engine = "LRU" =>
        /\ lru_len(LRU) <= capacity
        /\ lru_len(LRU) = Cardinality({k \in Keys : lru_get_ret(LRU, k) # None})

\* C4 witness: a full LRU cache after a put that evicted
C4_Witness ==
    engine = "LRU" /\ op.name = "put" /\ evicted # {} /\ lru_len(LRU) = capacity

LandlordResident == DOMAIN cache

\* C5: Landlord capacity invariant: after every put, get and evict the value map
\* holds at most capacity entries.
C5_LandlordLenWithinCapacity ==
    engine = "Landlord" => Cardinality(LandlordResident) <= capacity

\* C5 witness: a full Landlord cache after a put that evicted
C5_Witness ==
    /\ engine = "Landlord"
    /\ op.name = "put"
    /\ evicted # {}
    /\ Cardinality(LandlordResident) = capacity

\* C6: Landlord threshold: L never decreases; L stays 0 until an eviction removes
\* an entry (a call that removes none leaves L as it was, and L starts at 0); right
\* after an eviction that removes an entry, L is the priority that entry had.
\* Stated of the calls that return.
C6_LandlordThreshold ==
    [][(engine = "Landlord" /\ ~panicked') =>
          /\ l' >= l
          /\ evicted' = {} => l' = l
          /\ \A k \in evicted' : l' = pq[k]]_vars

\* C7: Landlord credit invariant: every resident entry's priority in the queue
\* is >= L.  Stated of the states no call has panicked in.
C7_LandlordPriorityAtLeastL ==
    (engine = "Landlord" /\ ~panicked) =>
        \A k \in LandlordResident : k \in DOMAIN pq /\ pq[k] >= l

\* C8: Landlord eviction choice: every eviction, explicit or by a put of a new key
\* on a full cache, removes one resident entry, and no resident entry has a
\* priority strictly below the removed entry's.
C8_LandlordEvictsMinPriority ==
    [][(engine = "Landlord" /\ evicted' # {}) =>
          \E k \in LandlordResident :
              /\ evicted' = {k}
              /\ \A j \in LandlordResident : j \in DOMAIN pq /\ pq[k] <= pq[j]]_vars

\* C8 witness: an eviction removed an entry while an entry of strictly greater
\* priority stayed
C8_Witness ==
    /\ engine = "Landlord"
    /\ op.name \in {"put", "evict"}
    /\ evicted # {}
    /\ \E j \in LandlordResident \ {op.key} : pq[j] > l

\* C9: LFU frequency accounting: get_freq of a resident key is 1 plus the number
\* of get hits and updating puts on it since it was inserted (so insertion sets 1,
\* each access adds exactly 1, and an access to another key changes nothing), and
\* get_freq of a non-resident key is None.
C9_LfuFreqCountsAccesses ==
    (engine = "LFU" /\ ~panicked) =>
        \A k \in Keys :
            get_freq(LFU, k) = IF k \in LfuResident THEN 1 + accesses[k] ELSE None

\* C9 witness: a resident key has been accessed since its insertion while another
\* resident key has not, and a key is not resident
C9_Witness ==
    /\ engine = "LFU"
    /\ op.name = "get"
    /\ \E k \in LfuResident, j \in LfuResident :
          accesses[k] >= 1 /\ accesses[j] = 0
    /\ LfuResident # Keys

\* the resident keys of the selected engine
Resident ==
    CASE engine = "LRU" -> LruResident
      [] engine = "LFU" -> LfuResident
      [] engine = "Landlord" -> LandlordResident

\* C10: idempotent miss: in each engine, get of a key that is not resident
\* returns None and changes nothing of the cache (resident set, values, links and
\* recency order, frequencies, priorities, L).
C10_GetMissChangesNothing ==
    [][(op'.name = "get" /\ op'.key \notin Resident) =>
          /\ ret' = None
          /\ UNCHANGED <<engine, capacity, panicked, nodes, free_list, map, head,
                         tail, weighted, min_priority_queue, key_to_idx,
                         priority_to_list, l, pq, cache>>]_vars

\* C10 witness: a get missed on a key that an earlier call had evicted from a
\* cache that is not empty
C10_Witness ==
    /\ op.name = "get"
    /\ ret = None
    /\ op.key \notin Resident
    /\ Resident # {}
    /\ (engine = "Landlord" => l > 0)
    /\ (engine # "Landlord" => free_list # <<>> \/ Len(nodes) > Cardinality(Resident))

\* what put(key, value, _) can leave behind in the selected engine, over every
\* weight: the resident keys, what get(key) then returns, whether the call panicked
PutOutcomes(key, value) ==
    CASE engine = "LRU" ->
           {LET t == lru_put(LRU, key, value, w)
            IN  [resident |-> DOMAIN t.map, stored |-> lru_get_ret(t, key),
                 panicked |-> FALSE] : w \in U32}
      [] engine = "LFU" ->
           UNION {{[resident |-> DOMAIN t.key_to_idx, stored |-> lfu_get_ret(t, key),
                    panicked |-> t.panicked] : t \in lfu_put(LFU, key, value, w)}
                  : w \in LfuWeights \cup LfuWideWeights}
      [] engine = "Landlord" ->
           UNION {{[resident |-> DOMAIN t.cache, stored |-> landlord_get_ret(t, key),
                    panicked |-> t.panicked] : t \in landlord_put(Landlord, key, value, w)}
                  : w \in U32}

\* C11: update-in-place: in each engine a put on a resident key that returns
\* leaves the set of resident keys as it was (no key evicted, the count unchanged,
\* also on a full cache), and a get of the key then returns the value supplied.
C11_PutOnResidentUpdatesInPlace ==
    ~panicked =>
        \A key \in Resident, value \in Values :
            \A o \in PutOutcomes(key, value) :
                ~o.panicked => (o.resident = Resident /\ o.stored = value)

\* C11 witness: on a full LFU cache of capacity 2 the last call was a put on a
\* key that was resident (it has been accessed since its insertion); nothing was
\* evicted and the key holds value 2
C11_Witness ==
    /\ engine = "LFU"
    /\ capacity = 2
    /\ lfu_len(LFU) = capacity
    /\ op.name = "put"
    /\ ~panicked
    /\ accesses[op.key] >= 1
    /\ evicted = {}
    /\ lfu_get_ret(LFU, op.key) = 2

\* C12: Landlord get on a resident key returns the stored value and sets that
\* key's priority to L plus the entry's stored weight; L, the resident entries
\* with their values and weights, and every other key's priority stay as they were.
C12_LandlordGetRearms ==
    [][(engine = "Landlord" /\ op'.name = "get" /\ op'.key \in DOMAIN cache)
        => /\ ~panicked'
           /\ ret' = cache[op'.key].value
           /\ pq' = [pq EXCEPT ![op'.key] = l + cache[op'.key].weight]
           /\ l' = l
           /\ cache' = cache]_vars

\* the same statement with the sum taken as the u32 addition of a build without
\* overflow checks, over the calls that return
C12_LandlordGetRearmsModulo ==
    [][(engine = "Landlord" /\ op'.name = "get" /\ op'.key \in DOMAIN cache
        /\ ~panicked')
        => /\ ret' = cache[op'.key].value
           /\ pq' = [pq EXCEPT ![op'.key] = AddU32(l, cache[op'.key].weight)]
           /\ l' = l
           /\ cache' = cache]_vars

\* C13: a Landlord put on a resident key re-arms the entry exactly as get(key)
\* would in the same state: whatever weight is passed, the key's priority after
\* the put is L plus the weight stored for the entry before the call (the sum
\* is taken as the u32 addition, and only the calls that return are considered).
C13_LandlordPutRearmsAsGet ==
    [][(engine = "Landlord" /\ op'.name = "put" /\ op'.key \in DOMAIN cache
        /\ ~panicked')
        => pq'[op'.key] = AddU32(l, cache[op'.key].weight)]_vars

\* the LFU's fields after the step
LFUNext ==
    [nodes |-> nodes', min_priority_queue |-> min_priority_queue',
     key_to_idx |-> key_to_idx', priority_to_list |-> priority_to_list',
     free_list |-> free_list', panicked |-> panicked']

\* a put that returns, on a key resident in the LFU
LfuPutOnResident ==
    /\ engine = "LFU"
    /\ op'.name = "put"
    /\ op'.key \in DOMAIN key_to_idx
    /\ ~panicked'

\* what C14 says of a put on a resident key, for a given product of usize values
LfuUpdateStep(Times(_, _)) ==
    LET key == op'.key
        idx == key_to_idx[key]
        new_priority == Times(nodes[idx].freq + 1, nodes[idx].weight)
    IN  /\ key_to_idx' = key_to_idx
        /\ nodes'[idx].freq = nodes[idx].freq + 1
        /\ nodes'[idx].weight = nodes[idx].weight
        /\ new_priority \in DOMAIN priority_to_list'
        /\ priority_to_list'[new_priority].head = idx
        /\ key \in DOMAIN min_priority_queue
              => min_priority_queue'[key] = new_priority
        /\ \E value \in Values :
              /\ nodes'[idx].value = value
              /\ LFUNext \in lfu_get([LFU EXCEPT !.nodes[idx].value = value], key)

Product(a, b) == a * b

\* C14: an LFU put on a resident key updates the value and then does exactly the
\* frequency-increment/re-bucket step of get: freq goes up by 1, the entry keeps
\* the weight it was inserted with whatever weight is passed, and its priority
\* (its bucket, and its queue priority) becomes (old freq + 1) x stored weight.
C14_LfuPutOnResidentIncrements ==
    [][LfuPutOnResident => LfuUpdateStep(Product)]_vars

\* the same statement with the product taken as the usize multiplication of a
\* build without overflow checks
C14_LfuPutOnResidentIncrementsModulo ==
    [][LfuPutOnResident => LfuUpdateStep(MulUsize)]_vars

\* C15: evict on empty: in any reachable state of the Landlord with no resident
\* entry, evict returns normally, removes nothing and leaves L, the queue, the
\* cache and every other field as they were.
C15_LandlordEvictOnEmptyIsNoOp ==
    [][(engine = "Landlord" /\ op'.name = "evict" /\ DOMAIN cache = {})
        => /\ ~panicked'
           /\ evicted' = {}
           /\ UNCHANGED <<engine, capacity, panicked, l, pq, cache>>]_vars

\* C15 witness: evict has just run and removed nothing, on a cache that earlier
\* evictions have emptied and whose threshold they have raised
C15_Witness ==
    /\ engine = "Landlord"
    /\ op.name = "evict"
    /\ evicted = {}
    /\ DOMAIN cache = {}
    /\ DOMAIN pq = {}
    /\ l > 0
    /\ ~panicked

\* the number of entries len() reports in the selected engine
Len_ ==
    CASE engine = "LRU" -> lru_len(LRU)
      [] engine = "LFU" -> lfu_len(LFU)
      [] engine = "Landlord" -> Cardinality(DOMAIN cache)

\* C16: zero-capacity rejection: constructing any engine with capacity 0 fails
\* fatally, and constructing it with a capacity >= 1 succeeds and gives an empty
\* cache: len() = 0, no resident key, and for Landlord L = 0.
C16_NewRejectsZeroCapacity ==
    op.name = "new" =>
        IF capacity = 0
        THEN panicked
        ELSE /\ ~panicked
             /\ Len_ = 0
             /\ Resident = {}
             /\ engine = "Landlord" => l = 0

\* C16 witness: a construction with capacity 0 that failed
C16_Witness == op.name = "new" /\ capacity = 0 /\ panicked

\* C17: weighted-mode precondition: on an LFU built with weighted = true, a put
\* without a weight fails fatally before anything is modified, whether the key
\* is resident or not: the call's only outcome is the panic, every field intact.
C17_WeightedPutWithoutWeightPanics ==
    (engine = "LFU" /\ weighted /\ ~panicked) =>
        \A key \in Keys, value \in Values :
            lfu_put(LFU, key, value, NoWeight) = {[LFU EXCEPT !.panicked = TRUE]}

\* C17 witness: on a full weighted LFU a put on a resident key has panicked (a put
\* on a resident key reaches no other panic when no product overflows), leaving
\* the key's freq as its accesses made it
C17_Witness ==
    /\ engine = "LFU"
    /\ weighted
    /\ panicked
    /\ op.name = "put"
    /\ op.key \in LfuResident
    /\ lfu_len(LFU) = capacity
    /\ get_freq(LFU, op.key) = 1 + accesses[op.key]
    /\ LfuResident # Keys

\* C18: the LFU's min-priority index is synchronized with the key index: the keys
\* queued in min_priority_queue are exactly the keys of key_to_idx, and each is
\* queued with the priority freq x weight of its entry.
C18_LfuQueueSynchronized ==
    (engine = "LFU" /\ ~panicked) =>
        /\ DOMAIN min_priority_queue = DOMAIN key_to_idx
        /\ \A k \in DOMAIN key_to_idx : min_priority_queue[k] = LfuPriorityOf(k)

\* the slots met from idx by following next, at most fuel of them
RECURSIVE Walk(_, _, _)
Walk(ns, idx, fuel) ==
    IF idx = None \/ fuel = 0 THEN <<>>
    ELSE <<idx>> \o Walk(ns, ns[idx].next, fuel - 1)

Slots(seq) == {seq[i] : i \in 1..Len(seq)}

\* seq is a doubly linked list of ns from head to tail: it ends before running
\* out of slots, repeats none, prev mirrors next, and tail is its last slot
WellLinked(ns, seq, hd, tl) ==
    /\ Len(seq) <= Len(ns)
    /\ \A i, j \in 1..Len(seq) : seq[i] = seq[j] => i = j
    /\ \A i \in 1..Len(seq) :
          ns[seq[i]].prev = IF i = 1 THEN None ELSE seq[i - 1]
    /\ IF seq = <<>> THEN hd = None /\ tl = None
       ELSE hd = seq[1] /\ tl = seq[Len(seq)] /\ ns[tl].next = None

\* the bucket of priority p, walked from its head
BucketSlots(p) == Walk(nodes, priority_to_list[p].head, Len(nodes) + 1)

\* what C19 says, for a given product of usize values
LfuBuckets(Times(_, _)) ==
    /\ \A k \in DOMAIN key_to_idx :
          LET idx == key_to_idx[k]
              p == Times(nodes[idx].freq, nodes[idx].weight)
          IN  /\ p \in DOMAIN priority_to_list
              /\ \A q \in DOMAIN priority_to_list :
                    idx \in Slots(BucketSlots(q)) <=> q = p
    /\ \A p \in DOMAIN priority_to_list :
          LET list == priority_to_list[p]
              seq == BucketSlots(p)
          IN  /\ WellLinked(nodes, seq, list.head, list.tail)
              /\ list.size = Len(seq)
              /\ \A i \in Slots(seq) :
                    /\ nodes[i].key \in DOMAIN key_to_idx
                    /\ key_to_idx[nodes[i].key] = i
                    /\ Times(nodes[i].freq, nodes[i].weight) = p

\* C19: LFU bucket invariant: every resident entry is linked in exactly one
\* bucket, the one of its current freq x weight; each bucket walked from head by
\* next ends at tail and visits only resident entries of that priority; prev and
\* next mirror each other; size is the number of entries linked.
C19_LfuBucketInvariant ==
    (engine = "LFU" /\ ~panicked) => LfuBuckets(Product)

\* the same statement with the product taken as the usize multiplication of a
\* build without overflow checks
C19_LfuBucketInvariantModulo ==
    (engine = "LFU" /\ ~panicked) => LfuBuckets(MulUsize)

\* the LRU list, walked from head
LruListSlots == Walk(nodes, head, Len(nodes) + 1)

\* C20: LRU list invariant: the list walked from head by next holds exactly the
\* slots of the key index, each once, and ends at tail; prev and next mirror each
\* other; head and tail are None exactly when the cache is empty.
C20_LruListInvariant ==
    (engine = "LRU" /\ ~panicked) =>
        /\ WellLinked(nodes, LruListSlots, head, tail)
        /\ Slots(LruListSlots) = {map[k] : k \in DOMAIN map}
        /\ \A k \in DOMAIN map : nodes[map[k]].key = k
        /\ Len(LruListSlots) = Cardinality(DOMAIN map)
        /\ (head = None) <=> (DOMAIN map = {})
        /\ (tail = None) <=> (DOMAIN map = {})

\* C20 witness: a full LRU cache of capacity 2 whose list has been reordered by a
\* get of the entry at the tail, after an eviction reused a slot
C20_Witness ==
    /\ engine = "LRU"
    /\ capacity = 2
    /\ lru_len(LRU) = 2
    /\ op.name = "get"
    /\ ret # None
    /\ head = map[op.key]
    /\ nodes[head].next = tail
    /\ head > tail
    /\ DOMAIN map = {2, 3}

\* the arena invariant for a key index idx_of over the arena ns with free-list
\* fl, the list ends in ends being the head and tail fields of every list
ArenaInvariant(ns, idx_of, fl, ends) ==
    LET resident == {idx_of[k] : k \in DOMAIN idx_of}
        free == Slots(fl)
    IN  /\ \A k \in DOMAIN idx_of : idx_of[k] \in 1..Len(ns)
        /\ \A j, k \in DOMAIN idx_of : idx_of[j] = idx_of[k] => j = k
        /\ \A k \in DOMAIN idx_of : ns[idx_of[k]].key = k
        /\ free \subseteq 1..Len(ns)
        /\ free \cap resident = {}
        /\ free \cap ends = {}
        /\ \A i \in resident : ns[i].prev \notin free /\ ns[i].next \notin free
        /\ \A i \in resident :
              /\ ns[i].prev # None => ns[i].prev \in resident
              /\ ns[i].next # None => ns[i].next \in resident
        /\ (ends \ {None}) \subseteq resident
        /\ \A i, j \in 1..Len(fl) : fl[i] = fl[j] => i = j

LruArenaInvariant(s) == ArenaInvariant(s.nodes, s.map, s.free_list, {s.head, s.tail})

LfuArenaInvariant(s) ==
    ArenaInvariant(s.nodes, s.key_to_idx, s.free_list,
                   UNION {{s.priority_to_list[p].head, s.priority_to_list[p].tail}
                          : p \in DOMAIN s.priority_to_list})

\* C21: arena/free-list invariant of the LRU and of the LFU: the key index maps
\* distinct keys to distinct slots inside the arena, each such slot stores the key
\* that maps to it, every head, tail, prev and next in use refers to an occupied
\* slot, no free-list index is referenced by the key index, by a head or tail or
\* by a link of a resident entry, and the free-list holds no index twice.  It
\* holds between calls and, inside a put on a full cache, between the eviction
\* that frees a slot and the insertion that takes it (the only place where the
\* free-list is not empty).
C21_ArenaFreeListInvariant ==
    /\ (engine = "LRU" /\ ~panicked)
          => /\ LruArenaInvariant(LRU)
             /\ lru_len(LRU) >= capacity => LruArenaInvariant(remove_tail(LRU))
    /\ (engine = "LFU" /\ ~panicked)
          => /\ LfuArenaInvariant(LFU)
             /\ lfu_len(LFU) >= capacity
                   => \A s \in evict_lfu(LFU) : ~s.panicked => LfuArenaInvariant(s)

\* between calls the free-list is empty: a slot is freed only by the eviction
\* inside a put, and the insertion of that same put takes it
FreeListEmptyBetweenCalls ==
    (engine \in {"LRU", "LFU"} /\ ~panicked) => free_list = <<>>

\* C21 witness: a put on a full LFU of capacity 2 evicted the entry in slot 1 and
\* the new key took the slot the eviction had put on the free-list
C21_Witness ==
    /\ engine = "LFU"
    /\ ~panicked
    /\ capacity = 2
    /\ op.name = "put"
    /\ evicted # {}
    /\ op.key \in LfuResident
    /\ key_to_idx[op.key] = 1
    /\ Len(nodes) = 2
    /\ lfu_len(LFU) = 2

\* C22: LRU slot recycling bounds the arena: after any put or get the arena holds
\* at most capacity slots and is never shorter than before; a put of a new key on
\* a full cache leaves the arena's length as it was and gives the new key the
\* slot of the entry it evicted.
C22_LruArenaBounded ==
    [][engine = "LRU" =>
          /\ Len(nodes) <= capacity
          /\ Len(nodes') <= capacity
          /\ Len(nodes') >= Len(nodes)
          /\ LruPutNewAtCapacity =>
                /\ Len(nodes') = Len(nodes)
                /\ map'[op'.key] = tail
                /\ free_list' = <<>>]_vars

\* C22 witness: on a full LRU of capacity 2 a put of a new key took slot 2, which
\* an earlier get had left at the tail, and the arena still has 2 slots
C22_Witness ==
    /\ engine = "LRU"
    /\ capacity = 2
    /\ Len(nodes) = 2
    /\ op.name = "put"
    /\ evicted # {}
    /\ map[op.key] = 2
    /\ head = 2
    /\ free_list = <<>>

\* C23: LFU eviction never crashes: in every state reached by put and get calls
\* on a cache of capacity >= 1 in which a put of a new key would call evict_lfu
\* (len() >= capacity), the min-priority queue is not empty, so pop().unwrap()
\* does not fail for any key pop() may return.
C23_LfuEvictNeverCrashes ==
    (engine = "LFU" /\ ~panicked /\ lfu_len(LFU) >= capacity) =>
        /\ DOMAIN min_priority_queue # {}
        /\ \A s \in evict_lfu(LFU) : ~s.panicked

\* C23 witness: a put of a new key on a full cache has run evict_lfu and evicted
\* an entry, in a state where ties have left the queue with a single key, and
\* not the same keys as the key index
C23_Witness ==
    /\ engine = "LFU"
    /\ ~panicked
    /\ op.name = "put"
    /\ evicted # {}
    /\ lfu_len(LFU) = 2
    /\ Cardinality(DOMAIN min_priority_queue) = 1
    /\ DOMAIN min_priority_queue # DOMAIN key_to_idx

\* C24: Landlord queue/map agreement: in every state reached by put, get and
\* evict calls the keys of the priority queue are the keys of the value map, so
\* an evict on a cache that is not empty removes exactly one resident entry and
\* an evict pops nothing only when the cache is empty.
C24_LandlordQueueMapAgree ==
    (engine = "Landlord" /\ ~panicked) =>
        /\ DOMAIN pq = DOMAIN cache
        /\ \A s \in landlord_evict(Landlord) :
              IF DOMAIN cache = {}
              THEN s = Landlord
              ELSE /\ DOMAIN s.cache \subseteq DOMAIN cache
                   /\ Cardinality(DOMAIN cache \ DOMAIN s.cache) = 1
                   /\ DOMAIN s.pq = DOMAIN s.cache

\* C24 witness: an evict on a cache of two entries removed one of them and left
\* the other, after a get had re-armed an entry
C24_Witness ==
    /\ engine = "Landlord"
    /\ ~panicked
    /\ op.name = "evict"
    /\ Cardinality(evicted) = 1
    /\ Cardinality(DOMAIN cache) = 1
    /\ DOMAIN pq = DOMAIN cache
    /\ \E k \in DOMAIN cache : pq[k] # AddU32(0, cache[k].weight)

\* a put that returns, of a key that is not resident, on a full Landlord cache
LandlordPutNewAtCapacity ==
    /\ engine = "Landlord"
    /\ op'.name = "put"
    /\ op'.key \notin DOMAIN cache
    /\ Cardinality(DOMAIN cache) = capacity
    /\ ~panicked'

\* C25: Landlord sequential evictions: when every weight supplied is >= 1, each
\* put of a new key on a full cache leaves L strictly greater than it was before
\* that put, whatever puts and gets came before.
C25_LandlordPutRaisesL ==
    [][LandlordPutNewAtCapacity => l' > l]_vars

\* no priority has been formed by a sum that passed 2^32: the queued priorities
\* are all at or above L
NoPriorityWrapped == \A k \in DOMAIN pq : pq[k] >= l

\* with weights >= 1 and while no priority has wrapped, such a put never lowers
\* L ...
C25_LandlordPutKeepsOrRaisesL ==
    [][(LandlordPutNewAtCapacity /\ NoPriorityWrapped) => l' >= l]_vars

\* ... but it need not raise it: two entries armed to the same priority are
\* evicted one after the other at the same L
C25_LandlordPutRaisesLUnlessWrapped ==
    [][(LandlordPutNewAtCapacity /\ NoPriorityWrapped) => l' > l]_vars

\* C26: the LFU's priorities do not overflow: for every sequence of put and get
\* calls, the product freq x weight of every entry, as computed at insertion and
\* at each frequency increment, fits the usize it is computed in (it neither
\* wraps nor aborts the call; an aborted increment has already stored the freq).
C26_LfuPriorityRepresentable ==
    engine = "LFU" =>
        \A k \in DOMAIN key_to_idx :
            ~MulUsizeOverflows(nodes[key_to_idx[k]].freq, nodes[key_to_idx[k]].weight)

====
